---- MODULE Spec2Model ----
(***************************************************************************)
(* Model of the S3 file upload service (s3data_sync.py): the root, health, *)
(* single-file upload and batch upload handlers.  A request is a coroutine *)
(* whose steps are the payload read (await file.read()) and the code from  *)
(* there to the next read or to the response (key construction, put_object *)
(* and the bookkeeping of its outcome).                                    *)
(*                                                                         *)
(* Python strings are sequences of one-character strings; None is a value  *)
(* different from every string.  Exceptions are records carrying their     *)
(* class, and for a botocore ClientError the parsed error response.  The   *)
(* variables reads and puts log the calls each request has made.           *)
(*                                                                         *)
(* Spec      one request, every batch up to MaxFiles, every outcome        *)
(* SpecKeys  one request, every folder up to MaxFolderLen                  *)
(* SpecConc  NumReqs requests in flight together                           *)
(***************************************************************************)
EXTENDS Integers, Sequences, FiniteSets, TLC

\* ------------------------------------------------------------------ bounds
NumReqs == 2       \* request slots that may be in flight together
MaxFiles == 3      \* files in one batch request
MaxFolderLen == 3  \* characters in a folder parameter

Reqs == 1 .. NumReqs

\* ------------------------------------------------------------ Python values
None == <<"None">>

RECURSIVE StringsUpTo(_, _)
StringsUpTo(alphabet, n) ==
    IF n = 0 THEN {<<>>}
    ELSE LET shorter == StringsUpTo(alphabet, n - 1)
         IN  shorter \cup {Append(s, c) : s \in {t \in shorter : Len(t) = n - 1},
                                          c \in alphabet}

RECURSIVE SeqsUpTo(_, _)
SeqsUpTo(S, n) ==
    IF n = 0 THEN {<<>>}
    ELSE LET shorter == SeqsUpTo(S, n - 1)
         IN  shorter \cup {Append(s, x) : s \in {t \in shorter : Len(t) = n - 1},
                                          x \in S}

\* f"{x}": str() of a str is itself, str(None) is the text None
PyStr(x) == IF x = None THEN <<"N", "o", "n", "e">> ELSE x

\* Python truthiness of an Optional[str]
Truthy(x) == x # None /\ x # <<>>

\* a strip of one trailing separator only
RStripOnce(s) ==
    IF s # <<>> /\ s[Len(s)] = "/" THEN SubSeq(s, 1, Len(s) - 1) ELSE s

\* str.rstrip('/')
RECURSIVE RStrip(_)
RStrip(s) ==
    IF s = <<>> THEN s
    ELSE IF s[Len(s)] = "/" THEN RStrip(SubSeq(s, 1, Len(s) - 1))
    ELSE s

\* ------------------------------------------------------------ configuration
AWS_REGION == <<"eu-north-1">>
S3_BUCKET_NAME == <<"study2material">>
StartupConfig ==
    [bucket |-> S3_BUCKET_NAME, region |-> AWS_REGION, client |-> "s3"]

\* -------------------------------------------------------------- exceptions
\* botocore ClientError: the provider answered with an error response
ClientError(code, msg) ==
    [cls |-> "ClientError", hasError |-> TRUE, code |-> code, msg |-> msg]
\* a ClientError whose parsed response holds no Error element
ClientErrorBare ==
    [cls |-> "ClientError", hasError |-> FALSE, code |-> "", msg |-> ""]
\* botocore EndpointConnectionError: the provider was not reached; it is a
\* BotoCoreError, not a ClientError
EndpointConnectionError ==
    [cls |-> "EndpointConnectionError", hasError |-> FALSE, code |-> "",
     msg |-> "Could not connect to the endpoint URL"]
\* botocore ParamValidationError: raised before any request is sent
ParamValidationError ==
    [cls |-> "ParamValidationError", hasError |-> FALSE, code |-> "",
     msg |-> "Parameter validation failed"]
\* the payload could not be read
ReadError ==
    [cls |-> "ValueError", hasError |-> FALSE, code |-> "",
     msg |-> "I/O operation on closed file"]

IsClientError(e) == e.cls = "ClientError"

\* str(e)
ExcStr(e) ==
    IF IsClientError(e)
    THEN <<"An error occurred (", IF e.hasError THEN e.code ELSE "Unknown",
           "): ", IF e.hasError THEN e.msg ELSE "Unknown">>
    ELSE <<e.msg>>

Ok == [cls |-> "ok", hasError |-> FALSE, code |-> "", msg |-> ""]

\* what the provider may answer to a request that was sent
ProviderOutcomes ==
    {Ok, ClientError("AccessDenied", "Access Denied"), ClientErrorBare,
     EndpointConnectionError}

\* s3_client.put_object(Key=key, ...): a key that is no string is refused by
\* the client before anything is sent
PutObjectOutcomes(key) ==
    IF key = None THEN {ParamValidationError} ELSE ProviderOutcomes

\* s3_client.head_bucket(Bucket=S3_BUCKET_NAME)
HeadBucketOutcomes == ProviderOutcomes

\* await file.read()
ReadOutcomes == {Ok, ReadError}

\* ------------------------------------------------------------------ inputs
FolderChars == {"d", "/"}
Folders == {None} \cup StringsUpTo(FolderChars, MaxFolderLen)

UploadFiles ==
    {[filename |-> None,     content_type |-> None,              body |-> <<>>],
     [filename |-> <<"a">>,  content_type |-> <<"text/plain">>,  body |-> <<1, 2>>],
     [filename |-> <<"b">>,  content_type |-> <<"image/png">>,   body |-> <<3>>]}

Batches == SeqsUpTo(UploadFiles, MaxFiles) \ {<<>>}

\* the folders of the runs over every batch
FewFolders == {None, <<>>, <<"d">>, <<"d", "/">>}

\* the inputs of the runs with several requests in flight
FileA == [filename |-> <<"a">>, content_type |-> <<"text/plain">>, body |-> <<1, 2>>]
FileB == [filename |-> <<"b">>, content_type |-> <<"image/png">>, body |-> <<3>>]
ConcFolders == {None, <<"d">>}
ConcFiles == {FileA}
ConcBatches == {<<FileA>>, <<FileA, FileB>>}

\* the batches of the runs over every folder
FileNoName == [filename |-> None, content_type |-> None, body |-> <<>>]
KeyBatches == {<<FileA>>, <<FileNoName, FileA>>, <<FileA, FileA, FileB>>}

\* -------------------------------------------------------------------- state
VARIABLES
    config,         \* module globals: bucket, region, client
    pc,             \* per request: idle, read, put, done
    op,             \* per request: the endpoint serving it
    files,          \* per request: the files parameter
    folder_arg,     \* per request: the folder parameter as received
    folder,         \* per request: the handler's local variable folder
    i,              \* per request: position of the batch loop (1-based)
    file_contents,  \* per request: the handler's local variable
    results,        \* per request: the batch handler's results list
    errors,         \* per request: the batch handler's errors list
    reads,          \* per request: the file.read() calls made so far
    puts,           \* per request: the put_object calls made so far
    response        \* per request: the HTTP response, once produced

vars == <<config, pc, op, files, folder_arg, folder, i, file_contents,
          results, errors, reads, puts, response>>

NoResponse == [status |-> 0, kind |-> "none"]

Init ==
    /\ config = StartupConfig
    /\ pc = [r \in Reqs |-> "idle"]
    /\ op = [r \in Reqs |-> "none"]
    /\ files = [r \in Reqs |-> <<>>]
    /\ folder_arg = [r \in Reqs |-> None]
    /\ folder = [r \in Reqs |-> None]
    /\ i = [r \in Reqs |-> 0]
    /\ file_contents = [r \in Reqs |-> <<>>]
    /\ results = [r \in Reqs |-> <<>>]
    /\ errors = [r \in Reqs |-> <<>>]
    /\ reads = [r \in Reqs |-> <<>>]
    /\ puts = [r \in Reqs |-> <<>>]
    /\ response = [r \in Reqs |-> NoResponse]

\* ---------------------------------------------------------------- responses
\* an exception no handler caught: the framework answers 500
Unhandled(e) == [status |-> 500, kind |-> "unhandled", exc |-> e]

\* raise HTTPException(status_code=500, detail=...)
HTTPException(status, detail) ==
    [status |-> status, kind |-> "http_exception", detail |-> detail]

\* a returned dict or JSONResponse
JSONResponse(status, content) ==
    [status |-> status, kind |-> "json", content |-> content]

FileUrl(s3_key) ==
    <<"https://">> \o config.bucket \o <<".s3.">> \o config.region
        \o <<".amazonaws.com/">> \o PyStr(s3_key)

\* ---------------------------------------------------------------------- root
RootResponse ==
    JSONResponse(200, [message |-> "S3 File Upload API",
                       bucket |-> config.bucket,
                       endpoints |-> [upload |-> "/upload", health |-> "/health"]])

Root(r) ==
    /\ pc[r] = "idle"
    /\ op' = [op EXCEPT ![r] = "root"]
    /\ response' = [response EXCEPT ![r] = RootResponse]
    /\ pc' = [pc EXCEPT ![r] = "done"]
    /\ UNCHANGED <<config, files, folder_arg, folder, i, file_contents,
                   results, errors, reads, puts>>

\* -------------------------------------------------------------------- health
\* the except clause of health_check
HealthCatches(e) == IsClientError(e)

HealthResponse(o) ==
    IF o = Ok
    THEN JSONResponse(200, [status |-> "healthy", bucket |-> config.bucket,
                            connection |-> "success"])
    ELSE IF HealthCatches(o)
    THEN JSONResponse(200, [status |-> "unhealthy", bucket |-> config.bucket,
                            error |-> ExcStr(o)])
    ELSE Unhandled(o)

HealthCheck(r) ==
    /\ pc[r] = "idle"
    /\ \E o \in HeadBucketOutcomes :
          response' = [response EXCEPT ![r] = HealthResponse(o)]
    /\ op' = [op EXCEPT ![r] = "health"]
    /\ pc' = [pc EXCEPT ![r] = "done"]
    /\ UNCHANGED <<config, files, folder_arg, folder, i, file_contents,
                   results, errors, reads, puts>>

\* ------------------------------------------------------------- single upload
\* folder = folder.rstrip('/') + '/'
UploadFolder(fld) == IF Truthy(fld) THEN RStrip(fld) \o <<"/">> ELSE fld

\* s3_key of upload_file
UploadKey(fld, filename) ==
    IF Truthy(fld) THEN UploadFolder(fld) \o PyStr(filename) ELSE filename

\* every exception reported by the generic clause
UploadErrorGeneric(e) == HTTPException(500, <<"Upload failed: ">> \o ExcStr(e))

\* the two except clauses of upload_file
UploadError(e) ==
    IF IsClientError(e)
    THEN HTTPException(500,
            <<"S3 upload failed: ", IF e.hasError THEN e.code ELSE "Unknown",
              " - ">> \o (IF e.hasError THEN <<e.msg>> ELSE ExcStr(e)))
    ELSE HTTPException(500, <<"Upload failed: ">> \o ExcStr(e))

UploadSuccess(file, s3_key, contents) ==
    JSONResponse(200, [message |-> "File uploaded successfully",
                       filename |-> file.filename,
                       s3_key |-> s3_key,
                       bucket |-> config.bucket,
                       url |-> FileUrl(s3_key),
                       content_type |-> file.content_type,
                       size |-> Len(contents)])

UploadReceive(r, FS, FD) ==
    /\ pc[r] = "idle"
    /\ \E file \in FS, fld \in FD :
          /\ files' = [files EXCEPT ![r] = <<file>>]
          /\ folder_arg' = [folder_arg EXCEPT ![r] = fld]
          /\ folder' = [folder EXCEPT ![r] = fld]
    /\ op' = [op EXCEPT ![r] = "upload"]
    /\ i' = [i EXCEPT ![r] = 1]
    /\ pc' = [pc EXCEPT ![r] = "read"]
    /\ UNCHANGED <<config, file_contents, results, errors, reads, puts, response>>

UploadRead(r) ==
    /\ pc[r] = "read" /\ op[r] = "upload"
    /\ \E o \in ReadOutcomes :
          /\ reads' = [reads EXCEPT ![r] = Append(@, [idx |-> 1, outcome |-> o])]
          /\ IF o = Ok
             THEN /\ file_contents' = [file_contents EXCEPT ![r] = files[r][1].body]
                  /\ pc' = [pc EXCEPT ![r] = "put"]
                  /\ UNCHANGED response
             ELSE /\ response' = [response EXCEPT ![r] = UploadError(o)]
                  /\ pc' = [pc EXCEPT ![r] = "done"]
                  /\ UNCHANGED file_contents
    /\ UNCHANGED <<config, op, files, folder_arg, folder, i, results, errors, puts>>

UploadPut(r) ==
    /\ pc[r] = "put" /\ op[r] = "upload"
    /\ LET file == files[r][1]
           s3_key == UploadKey(folder[r], file.filename)
       IN  /\ folder' = [folder EXCEPT ![r] = UploadFolder(folder[r])]
           /\ \E o \in PutObjectOutcomes(s3_key) :
                 /\ puts' = [puts EXCEPT ![r] =
                        Append(@, [idx |-> 1, key |-> s3_key, outcome |-> o])]
                 /\ response' = [response EXCEPT ![r] =
                        IF o = Ok
                        THEN UploadSuccess(file, s3_key, file_contents[r])
                        ELSE UploadError(o)]
    /\ pc' = [pc EXCEPT ![r] = "done"]
    /\ UNCHANGED <<config, op, files, folder_arg, i, file_contents, results,
                   errors, reads>>

\* -------------------------------------------------------------- batch upload
\* a folder variable shared by the requests
LoopFolderShared(r) == folder[1]

\* the local variable folder as the loop body reads it
LoopFolder(r) == folder[r]

\* a separator appended without the strip
BatchFolderNoStrip(fld) == IF Truthy(fld) THEN fld \o <<"/">> ELSE fld

\* folder = folder.rstrip('/') + '/'
BatchFolder(fld) == IF Truthy(fld) THEN RStrip(fld) \o <<"/">> ELSE fld

\* s3_key of upload_multiple_files
BatchKey(fld, filename) ==
    IF Truthy(fld) THEN BatchFolder(fld) \o PyStr(filename) ELSE filename

\* except ClientError
BatchCatchesClientError(e) == IsClientError(e)

\* except Exception
BatchCatches(e) ==
    e.cls \in {"ClientError", "EndpointConnectionError", "ParamValidationError",
               "ValueError"}

ResultEntry(file, s3_key) ==
    [filename |-> file.filename, status |-> "success", s3_key |-> s3_key,
     url |-> FileUrl(s3_key)]

ErrorEntry(file, e) ==
    [filename |-> file.filename, status |-> "failed", error |-> ExcStr(e)]

\* results.insert(0, {...})
AddResultFirst(res, entry) == <<entry>> \o res

\* results.append({...})
AddResult(res, entry) == Append(res, entry)

\* errors.append({...})
AddError(errs, entry) == Append(errs, entry)

\* a report counting every file as successful
BatchResponseAllSuccessful(fs, res, errs) ==
    JSONResponse(200, [message |-> <<"Processed ", Len(fs), " file(s)">>,
                       successful |-> Len(fs),
                       failed |-> Len(errs),
                       results |-> res,
                       errors |-> errs])

BatchResponse(fs, res, errs) ==
    JSONResponse(200, [message |-> <<"Processed ", Len(fs), " file(s)">>,
                       successful |-> Len(res),
                       failed |-> Len(errs),
                       results |-> res,
                       errors |-> errs])

\* the end of one iteration: the next file, or the return after the last one
BatchContinue(r, res, errs) ==
    /\ results' = [results EXCEPT ![r] = res]
    /\ errors' = [errors EXCEPT ![r] = errs]
    /\ IF i[r] < Len(files[r])
       THEN /\ i' = [i EXCEPT ![r] = @ + 1]
            /\ pc' = [pc EXCEPT ![r] = "read"]
            /\ UNCHANGED response
       ELSE /\ response' = [response EXCEPT ![r] = BatchResponse(files[r], res, errs)]
            /\ pc' = [pc EXCEPT ![r] = "done"]
            /\ UNCHANGED i

\* an exception of the loop body ending the loop
BatchRaiseBreak(r, e) ==
    LET errs == AddError(errors[r], ErrorEntry(files[r][i[r]], e))
    IN  /\ errors' = [errors EXCEPT ![r] = errs]
        /\ response' = [response EXCEPT ![r] = BatchResponse(files[r], results[r], errs)]
        /\ pc' = [pc EXCEPT ![r] = "done"]
        /\ UNCHANGED <<results, i>>

\* an exception of the loop body: folded into errors, or leaving the handler
BatchRaise(r, e) ==
    IF BatchCatches(e)
    THEN BatchContinue(r, results[r], AddError(errors[r], ErrorEntry(files[r][i[r]], e)))
    ELSE /\ response' = [response EXCEPT ![r] = Unhandled(e)]
         /\ pc' = [pc EXCEPT ![r] = "done"]
         /\ UNCHANGED <<results, errors, i>>

BatchReceive(r, BS, FD) ==
    /\ pc[r] = "idle"
    /\ \E fs \in BS, fld \in FD :
          /\ files' = [files EXCEPT ![r] = fs]
          /\ folder_arg' = [folder_arg EXCEPT ![r] = fld]
          /\ folder' = [folder EXCEPT ![r] = fld]
    /\ op' = [op EXCEPT ![r] = "batch"]
    /\ results' = [results EXCEPT ![r] = <<>>]
    /\ errors' = [errors EXCEPT ![r] = <<>>]
    /\ i' = [i EXCEPT ![r] = 1]
    /\ pc' = [pc EXCEPT ![r] = "read"]
    /\ UNCHANGED <<config, file_contents, reads, puts, response>>

BatchRead(r) ==
    /\ pc[r] = "read" /\ op[r] = "batch"
    /\ \E o \in ReadOutcomes :
          /\ reads' = [reads EXCEPT ![r] = Append(@, [idx |-> i[r], outcome |-> o])]
          /\ IF o = Ok
             THEN /\ file_contents' = [file_contents EXCEPT ![r] = files[r][i[r]].body]
                  /\ pc' = [pc EXCEPT ![r] = "put"]
                  /\ UNCHANGED <<results, errors, i, response>>
             ELSE /\ BatchRaise(r, o)
                  /\ UNCHANGED file_contents
    /\ UNCHANGED <<config, op, files, folder_arg, folder, puts>>

BatchPut(r) ==
    /\ pc[r] = "put" /\ op[r] = "batch"
    /\ LET file == files[r][i[r]]
           s3_key == BatchKey(LoopFolder(r), file.filename)
       IN  /\ folder' = [folder EXCEPT ![r] = BatchFolder(LoopFolder(r))]
           /\ \E o \in PutObjectOutcomes(s3_key) :
                 /\ puts' = [puts EXCEPT ![r] =
                        Append(@, [idx |-> i[r], key |-> s3_key, outcome |-> o])]
                 /\ IF o = Ok
                    THEN BatchContinue(r, AddResult(results[r], ResultEntry(file, s3_key)),
                                       errors[r])
                    ELSE BatchRaise(r, o)
    /\ UNCHANGED <<config, op, files, folder_arg, file_contents, reads>>

\* ------------------------------------------------------------ specifications
\* one request: every batch and every pattern of outcomes
Next ==
    \/ Root(1)
    \/ HealthCheck(1)
    \/ UploadReceive(1, UploadFiles, FewFolders)
    \/ UploadRead(1)
    \/ UploadPut(1)
    \/ BatchReceive(1, Batches, FewFolders)
    \/ BatchRead(1)
    \/ BatchPut(1)

Spec == Init /\ [][Next]_vars

\* one upload or batch request: every folder
NextKeys ==
    \/ UploadReceive(1, UploadFiles, Folders)
    \/ UploadRead(1)
    \/ UploadPut(1)
    \/ BatchReceive(1, KeyBatches, Folders)
    \/ BatchRead(1)
    \/ BatchPut(1)

SpecKeys == Init /\ [][NextKeys]_vars

\* requests in flight together, interleaved at their suspension points
NextConc ==
    \E r \in Reqs :
        \/ HealthCheck(r)
        \/ UploadReceive(r, ConcFiles, ConcFolders)
        \/ UploadRead(r)
        \/ UploadPut(r)
        \/ BatchReceive(r, ConcBatches, ConcFolders)
        \/ BatchRead(r)
        \/ BatchPut(r)

SpecConc == Init /\ [][NextConc]_vars

\* ------------------------------------------------------- what the logs say
Done(r) == pc[r] = "done"
IsBatch(r) == op[r] = "batch"
IsUpload(r) == op[r] = "upload"
IsHealth(r) == op[r] = "health"
NumFiles(r) == Len(files[r])

Handled(r, k) == \E n \in DOMAIN reads[r] : reads[r][n].idx = k
ReadFailed(r, k) ==
    \E n \in DOMAIN reads[r] : reads[r][n].idx = k /\ reads[r][n].outcome # Ok
PutAttempted(r, k) == \E n \in DOMAIN puts[r] : puts[r][n].idx = k
PutOk(r, k) ==
    \E n \in DOMAIN puts[r] : puts[r][n].idx = k /\ puts[r][n].outcome = Ok
PutFailed(r, k) ==
    \E n \in DOMAIN puts[r] : puts[r][n].idx = k /\ puts[r][n].outcome # Ok
Failed(r, k) == ReadFailed(r, k) \/ PutFailed(r, k)

SucceededIdx(r) == {k \in 1 .. NumFiles(r) : PutOk(r, k)}
FailedIdx(r) == {k \in 1 .. NumFiles(r) : Failed(r, k)}

\* the members of a set of indices, in increasing order
RECURSIVE InOrder(_, _)
InOrder(S, n) ==
    IF n = 0 THEN <<>>
    ELSE IF n \in S THEN Append(InOrder(S, n - 1), n) ELSE InOrder(S, n - 1)

Increasing(log) ==
    \A m, n \in DOMAIN log : m < n => log[m].idx < log[n].idx

\* ----------------------------------------------------------------- claim C1
\* C1 as stated: in a finished batch every file after a failed one was handled
\* and received its own put_object attempt.
C1_EveryLaterFileIsPut ==
    \A r \in Reqs : IsBatch(r) /\ Done(r) =>
        \A j, k \in 1 .. NumFiles(r) :
            j < k /\ Failed(r, j) => Handled(r, k) /\ PutAttempted(r, k)

\* C1 as amended: a failure of one file never aborts the batch.  The loop ends
\* only after the last file, and by then every file had its payload read
\* attempted and, unless that read itself raised, its own put_object attempt;
\* no response exists before the loop has ended.
C1_FailureNeverAbortsBatch ==
    \A r \in Reqs : IsBatch(r) =>
        /\ Done(r) =>
              /\ i[r] = NumFiles(r)
              /\ \A k \in 1 .. NumFiles(r) :
                    /\ Handled(r, k)
                    /\ ReadFailed(r, k) \/ PutAttempted(r, k)
                    /\ ~(ReadFailed(r, k) /\ PutAttempted(r, k))
        /\ ~Done(r) => response[r] = NoResponse
        /\ \A k \in 1 .. NumFiles(r) : k < i[r] => Handled(r, k)

\* a finished batch of three files whose first file failed at put_object and
\* whose second file failed at the payload read, the third being written
C1_Witness ==
    \E r \in Reqs :
        /\ IsBatch(r) /\ Done(r) /\ NumFiles(r) = 3
        /\ PutFailed(r, 1) /\ ReadFailed(r, 2) /\ PutOk(r, 3)

\* ----------------------------------------------------------------- claim C2
CountEntries(entries, fn) ==
    Cardinality({n \in DOMAIN entries : entries[n].filename = fn})
CountFiles(r, S, fn) ==
    Cardinality({k \in S : files[r][k].filename = fn})
FileNames(r) == {files[r][k].filename : k \in 1 .. NumFiles(r)}

\* C2: every file of a batch ends up in exactly one of results (its storage
\* write succeeded) and errors (it failed); the response reports successful =
\* len(results), failed = len(errors), their sum is the number of files, and
\* the errors entries carry the filenames of the files that failed.
C2_EachFileInExactlyOneList ==
    \A r \in Reqs : IsBatch(r) =>
        /\ Len(results[r]) = Cardinality(SucceededIdx(r))
        /\ Len(errors[r]) = Cardinality(FailedIdx(r))
        /\ SucceededIdx(r) \cap FailedIdx(r) = {}
        /\ \A fn \in FileNames(r) :
              /\ CountEntries(errors[r], fn) = CountFiles(r, FailedIdx(r), fn)
              /\ CountEntries(results[r], fn) = CountFiles(r, SucceededIdx(r), fn)
        /\ Done(r) =>
              /\ SucceededIdx(r) \cup FailedIdx(r) = 1 .. NumFiles(r)
              /\ response[r].kind = "json"
              /\ response[r].content.successful = Cardinality(SucceededIdx(r))
              /\ response[r].content.failed = Cardinality(FailedIdx(r))
              /\ response[r].content.successful + response[r].content.failed
                    = NumFiles(r)
              /\ response[r].content.results = results[r]
              /\ response[r].content.errors = errors[r]

\* three files, the storage write failing for exactly one: successful 2, failed 1
C2_Witness ==
    \E r \in Reqs :
        /\ IsBatch(r) /\ Done(r) /\ NumFiles(r) = 3
        /\ Cardinality({k \in 1 .. 3 : PutFailed(r, k)}) = 1
        /\ Cardinality({k \in 1 .. 3 : PutOk(r, k)}) = 2
        /\ response[r].content.successful = 2
        /\ response[r].content.failed = 1

\* ----------------------------------------------------------------- claim C3
\* C3: the files of a batch are read and put in the order supplied, and the
\* entries of results and of errors each stand in the order of their files.
C3_OrderPreserved ==
    \A r \in Reqs : IsBatch(r) =>
        /\ Increasing(reads[r])
        /\ Increasing(puts[r])
        /\ LET ok == InOrder(SucceededIdx(r), NumFiles(r))
               bad == InOrder(FailedIdx(r), NumFiles(r))
           IN  /\ Len(results[r]) = Len(ok)
               /\ \A n \in DOMAIN results[r] :
                     results[r][n].filename = files[r][ok[n]].filename
               /\ Len(errors[r]) = Len(bad)
               /\ \A n \in DOMAIN errors[r] :
                     errors[r][n].filename = files[r][bad[n]].filename

\* a finished batch of three files, the second failing between two
\* differently named successes
C3_Witness ==
    \E r \in Reqs :
        /\ IsBatch(r) /\ Done(r) /\ NumFiles(r) = 3
        /\ PutOk(r, 1) /\ Failed(r, 2) /\ PutOk(r, 3)
        /\ files[r][1].filename # files[r][3].filename
        /\ Len(results[r]) = 2

\* ----------------------------------------------------------------- claim C4
\* C4: upload_file makes at most one put_object call, exactly one successful
\* one when it answers 200, and a payload without a file name is rejected
\* with nothing written to storage, with or without a folder.
C4_NoWriteWithoutFileName ==
    \A r \in Reqs : IsUpload(r) =>
        /\ Len(puts[r]) <= 1
        /\ response[r].status = 200 => Len(puts[r]) = 1 /\ PutOk(r, 1)
        /\ files[r][1].filename = None =>
              /\ ~PutOk(r, 1)
              /\ response[r].status # 200

C6_HealthNeverFaults ==
    \A r \in Reqs : IsHealth(r) /\ Done(r) =>
        /\ response[r].status = 200
        /\ response[r].kind = "json"
        /\ response[r].content.status \in {"healthy", "unhealthy"}
        /\ response[r].content.bucket = S3_BUCKET_NAME
        /\ response[r].content.status = "unhealthy" =>
              response[r].content.error # <<>>

\* ----------------------------------------------------------------- claim C7
\* key is fld without its trailing separators, one separator, and the name
KeyShape(fld, fn, key) ==
    IF fld = None \/ fld = <<>> THEN key = fn
    ELSE \E k \in 0 .. Len(fld) :
            /\ k = 0 \/ fld[k] # "/"
            /\ \A j \in (k + 1) .. Len(fld) : fld[j] = "/"
            /\ key = SubSeq(fld, 1, k) \o <<"/">> \o fn

\* C7: for every file name and folder, the key given to put_object is the
\* file name unchanged when the folder is absent or empty, and otherwise the
\* folder without its trailing separators, exactly one separator, and the file
\* name; the same folder and file name always give the same key.
C7_KeyConstruction ==
    \A r \in Reqs : \A n \in DOMAIN puts[r] :
        LET fn == files[r][puts[r][n].idx].filename
        IN  /\ fn # None => KeyShape(folder_arg[r], fn, puts[r][n].key)
            /\ \A m \in DOMAIN puts[r] :
                  files[r][puts[r][m].idx].filename = fn
                      => puts[r][m].key = puts[r][n].key

\* the folder d// and the file a give the key d/a
C7_Witness ==
    \E r \in Reqs :
        /\ folder_arg[r] = <<"d", "/", "/">>
        /\ \E n \in DOMAIN puts[r] :
              /\ files[r][puts[r][n].idx].filename = <<"a">>
              /\ puts[r][n].key = <<"d", "/", "a">>

\* ----------------------------------------------------------------- claim C8
\* C8: a batch request is always answered with 200 and a JSON body, whatever
\* the files and their outcomes; the failures are reported in the body only.
C8_BatchAlwaysAnswers200 ==
    \A r \in Reqs : IsBatch(r) /\ Done(r) =>
        /\ response[r].status = 200
        /\ response[r].kind = "json"
        /\ response[r].content.failed = Cardinality(FailedIdx(r))
        /\ Len(response[r].content.errors) = Cardinality(FailedIdx(r))
        /\ \A n \in DOMAIN response[r].content.errors :
              /\ response[r].content.errors[n].status = "failed"
              /\ response[r].content.errors[n].error # <<>>

\* every file of a batch of three failing, by a payload read, by a fault that
\* is no provider error, and by a provider error
C8_Witness ==
    \E r \in Reqs :
        /\ IsBatch(r) /\ Done(r) /\ NumFiles(r) = 3
        /\ ReadFailed(r, 1)
        /\ \E n \in DOMAIN puts[r] :
              puts[r][n].idx = 2 /\ puts[r][n].outcome = EndpointConnectionError
        /\ \E n \in DOMAIN puts[r] :
              puts[r][n].idx = 3 /\ puts[r][n].outcome.cls = "ClientError"
        /\ response[r].content.successful = 0

\* ----------------------------------------------------------------- claim C9
ReadOutcome(r, k) ==
    (CHOOSE e \in {reads[r][n] : n \in DOMAIN reads[r]} : e.idx = k).outcome
PutOutcome(r, k) ==
    (CHOOSE e \in {puts[r][n] : n \in DOMAIN puts[r]} : e.idx = k).outcome

\* the batch handler run alone on the first k files of request r, with the
\* outcomes request r met
RECURSIVE RunAlone(_, _)
RunAlone(r, k) ==
    IF k = 0
    THEN [folder |-> folder_arg[r], results |-> <<>>, errors |-> <<>>, keys |-> <<>>]
    ELSE LET prev == RunAlone(r, k - 1)
             file == files[r][k]
             key == BatchKey(prev.folder, file.filename)
         IN  IF ReadOutcome(r, k) # Ok
             THEN [prev EXCEPT !.errors = Append(@, ErrorEntry(file, ReadOutcome(r, k)))]
             ELSE IF PutOutcome(r, k) = Ok
             THEN [folder |-> BatchFolder(prev.folder),
                   results |-> Append(prev.results, ResultEntry(file, key)),
                   errors |-> prev.errors,
                   keys |-> Append(prev.keys, key)]
             ELSE [folder |-> BatchFolder(prev.folder),
                   results |-> prev.results,
                   errors |-> Append(prev.errors, ErrorEntry(file, PutOutcome(r, k))),
                   keys |-> Append(prev.keys, key)]

\* the upload handler run alone with the outcomes request r met
UploadAlone(r) ==
    LET file == files[r][1]
        key == UploadKey(folder_arg[r], file.filename)
    IN  IF ReadOutcome(r, 1) # Ok THEN UploadError(ReadOutcome(r, 1))
        ELSE IF PutOutcome(r, 1) = Ok THEN UploadSuccess(file, key, file.body)
        ELSE UploadError(PutOutcome(r, 1))

Completed(r) == IF Done(r) THEN NumFiles(r) ELSE i[r] - 1

\* C9: the configuration is never changed by a handler, and with requests
\* interleaved at their suspension points each request's lists, response and
\* sequence of storage keys are those of the same request run alone with the
\* same storage outcomes.
C9_RequestsIndependent ==
    /\ config = StartupConfig
    /\ \A r \in Reqs :
          /\ IsBatch(r) =>
                LET alone == RunAlone(r, Completed(r))
                IN  /\ results[r] = alone.results
                    /\ errors[r] = alone.errors
                    /\ [n \in DOMAIN puts[r] |-> puts[r][n].key] = alone.keys
                    /\ Done(r) => response[r] =
                          BatchResponse(files[r], alone.results, alone.errors)
          /\ IsUpload(r) /\ Done(r) =>
                /\ response[r] = UploadAlone(r)
                /\ \A n \in DOMAIN puts[r] :
                      puts[r][n].key = UploadKey(folder_arg[r], files[r][1].filename)

\* two batch requests with different folders, both inside their loops
C9_Witness ==
    /\ IsBatch(1) /\ IsBatch(2)
    /\ folder_arg[1] # folder_arg[2]
    /\ pc[1] = "put" /\ i[1] = 2 /\ Len(puts[1]) = 1
    /\ pc[2] = "put" /\ i[2] = 2 /\ Len(puts[2]) = 1

\* ---------------------------------------------------------------- claim C10
\* C10: the batch loop overwrites folder with its normalized value, and the
\* normalization is idempotent, so the key of the file at every position of a
\* batch is the key upload_file computes for the folder as received and that
\* file name, whatever files preceded it and whether they failed.
C10_BatchKeyEqualsUploadKey ==
    \A r \in Reqs : IsBatch(r) =>
        /\ \A n \in DOMAIN puts[r] :
              puts[r][n].key =
                  UploadKey(folder_arg[r], files[r][puts[r][n].idx].filename)
        /\ puts[r] # <<>> =>
              /\ folder[r] = BatchFolder(folder_arg[r])
              /\ BatchFolder(folder[r]) = folder[r]

\* a batch whose folder was overwritten by the loop, the third file being put
\* after a failed write and a failed read
C10_Witness ==
    \E r \in Reqs :
        /\ IsBatch(r) /\ NumFiles(r) = 3
        /\ folder_arg[r] = <<"d">> /\ folder[r] = <<"d", "/">>
        /\ PutFailed(r, 1) /\ ReadFailed(r, 2)
        /\ \E n \in DOMAIN puts[r] :
              puts[r][n].idx = 3 /\ puts[r][n].key = <<"d", "/", "b">>

====
